---- MODULE Spec2Model ----
(***************************************************************************)
(* Payment status reconciliation of oscar_docdata.interface.Interface.     *)
(*                                                                         *)
(* The stored state is the DocdataOrder rows and the DocdataPayment rows.  *)
(* The operations are update_order, cancel_order and start_payment; the    *)
(* first two run _store_report on the status report the gateway returns.   *)
(* The gateway (DocdataClient) is an external collaborator: its replies    *)
(* and its failures are inputs chosen by the environment.                  *)
(***************************************************************************)
EXTENDS Integers, Sequences, FiniteSets, TLC

\* Python's None (also the result of a missing attribute default).
None == "<None>"

(***************************************************************************)
(* Vocabularies.  DocdataOrder.STATUS_* and DocdataClient.STATUS_* are     *)
(* declared in models.py and gateway.py; interface.py only names them.     *)
(***************************************************************************)
STATUS_NEW == "new"
STATUS_IN_PROGRESS == "in_progress"
STATUS_PENDING == "pending"
STATUS_PAID == "paid"
STATUS_PAID_REFUNDED == "paid_refunded"
STATUS_REFUNDED == "refunded"
STATUS_CANCELLED == "cancelled"
STATUS_CHARGED_BACK == "charged_back"
STATUS_EXPIRED == "expired"
STATUS_UNKNOWN == "unknown"

\* dict(DocdataOrder.STATUS_CHOICES): the recognized order statuses.
STATUS_CHOICES ==
    { STATUS_NEW, STATUS_IN_PROGRESS, STATUS_PENDING, STATUS_PAID,
      STATUS_PAID_REFUNDED, STATUS_REFUNDED, STATUS_CANCELLED,
      STATUS_CHARGED_BACK, STATUS_EXPIRED, STATUS_UNKNOWN }

\* Authorization statuses of the gateway (DocdataClient.STATUS_*).
GW_NEW == "NEW"
GW_STARTED == "STARTED"
GW_REDIRECTED_FOR_AUTHENTICATION == "REDIRECTED_FOR_AUTHENTICATION"
GW_AUTHORIZATION_REQUESTED == "AUTHORIZATION_REQUESTED"
GW_AUTHORIZED == "AUTHORIZED"
GW_PAID == "PAID"
GW_CANCELLED == "CANCELLED"
GW_CHARGED_BACK == "CHARGED_BACK"
GW_CONFIRMED_PAID == "CONFIRMED_PAID"
GW_CONFIRMED_CHARGEDBACK == "CONFIRMED_CHARGEDBACK"
GW_CLOSED_SUCCESS == "CLOSED_SUCCESS"
GW_CLOSED_CANCELLED == "CLOSED_CANCELLED"
\* A documented authorization status that status_mapping has no key for,
\* and a string the gateway documentation does not know at all.
GW_AUTHORIZATION_FAILED == "AUTHORIZATION_FAILED"
GW_UNDOCUMENTED == "SOMETHING_NEW"

\* Interface.status_mapping
status_mapping ==
    (GW_NEW :> STATUS_NEW)
    @@ (GW_STARTED :> STATUS_NEW)
    @@ (GW_REDIRECTED_FOR_AUTHENTICATION :> STATUS_IN_PROGRESS)
    @@ (GW_AUTHORIZATION_REQUESTED :> STATUS_PENDING)
    @@ (GW_AUTHORIZED :> STATUS_PENDING)
    @@ (GW_PAID :> STATUS_PENDING)
    @@ (GW_CANCELLED :> STATUS_CANCELLED)
    @@ (GW_CHARGED_BACK :> STATUS_CHARGED_BACK)
    @@ (GW_CONFIRMED_PAID :> STATUS_PAID)
    @@ (GW_CONFIRMED_CHARGEDBACK :> STATUS_CHARGED_BACK)
    @@ (GW_CLOSED_SUCCESS :> STATUS_PAID)
    @@ (GW_CLOSED_CANCELLED :> STATUS_CANCELLED)

\* dict.get(key, default)
DictGet(dict, key, default) ==
    IF key \in DOMAIN dict THEN dict[key] ELSE default

\* self.status_mapping.get(status, DocdataOrder.STATUS_UNKNOWN)
MappedStatus(auth_status) ==
    DictGet(status_mapping, auth_status, STATUS_UNKNOWN)

(***************************************************************************)
(* Decimals.  D(n) / 100 is the exact decimal with two fractional digits;  *)
(* it is kept as its integer part and its hundredths.                      *)
(***************************************************************************)
Hundred == 100

to_decimal_cents(value) ==
    [whole |-> value \div Hundred, frac |-> value % Hundred]

\* int(d * 100)
DecimalToCents(d) == d.whole * Hundred + d.frac

\* Decimal addition.
DecimalAdd(a, b) == to_decimal_cents(DecimalToCents(a) + DecimalToCents(b))

\* _to_decimal(amount): D(int(amount.value)) / 100
to_decimal(amount) == to_decimal_cents(amount.value)

(***************************************************************************)
(* Configuration.                                                          *)
(***************************************************************************)
Currencies == {"EUR", "USD"}

\* The tolerance configured for a converted payment, in minor units.
ConfiguredMargin == 50

\* appsettings.DOCDATA_PAYMENT_SUCCESS_MARGIN: no entry for USD.
DOCDATA_PAYMENT_SUCCESS_MARGIN == ("EUR" :> ConfiguredMargin)

\* Orders older than this many days expire.
EXPIRY_DAYS == 21

(***************************************************************************)
(* _get_payment_sum(payment, xml_tag, success_status)                      *)
(***************************************************************************)
RECURSIVE SumTags(_, _)
SumTags(tags, success_status) ==
    IF tags = <<>>
    THEN to_decimal_cents(0)
    ELSE LET rest == SumTags(Tail(tags), success_status)
         IN  IF Head(tags).status = success_status
             THEN DecimalAdd(to_decimal(Head(tags).amount), rest)
             ELSE rest

\* A sum that counts every item, whatever its status: C23 tells it from
\* get_payment_sum.
get_payment_sum_of_all(payment, xml_tag, success_status) ==
    SumTags([i \in DOMAIN payment.authorization[xml_tag] |->
               [payment.authorization[xml_tag][i]
                  EXCEPT !.status = success_status]],
            success_status)

get_payment_sum(payment, xml_tag, success_status) ==
    SumTags(payment.authorization[xml_tag], success_status)

(***************************************************************************)
(* _process_authorized_payment(order, report, payment)                     *)
(***************************************************************************)
\* A margin that is not clamped below totalRegistered: C9 tells it from
\* PaymentMargin.
PaymentMarginUnclamped(order, report) ==
    LET totals == report.approximateTotals
    IN  IF /\ order.currency = totals.exchangedTo
           /\ \E i \in DOMAIN report.payment :
                report.payment[i].authorization.amount.currency # order.currency
        THEN DictGet(DOCDATA_PAYMENT_SUCCESS_MARGIN, totals.exchangedTo, 0)
        ELSE 0

\* Lines 521-529: the margin that applies to this order and report.
PaymentMargin(order, report) ==
    LET totals == report.approximateTotals
    IN  IF /\ order.currency = totals.exchangedTo
           /\ \E i \in DOMAIN report.payment :
                report.payment[i].authorization.amount.currency # order.currency
        THEN LET margin == DictGet(DOCDATA_PAYMENT_SUCCESS_MARGIN,
                                   totals.exchangedTo, 0)
             IN  IF margin >= totals.totalRegistered THEN 0 ELSE margin
        ELSE 0

\* A decision that takes an order for paid only above what was registered:
\* C8 tells it from AuthorizedDecision.
AuthorizedDecisionAbove(totals, margin) ==
    LET payment_sum == totals.totalCaptured - totals.totalChargedback
                         - totals.totalRefunded
    IN  IF totals.totalCaptured < totals.totalRegistered - margin
        THEN None
        ELSE IF payment_sum > totals.totalRegistered - margin
             THEN STATUS_PAID
             ELSE IF payment_sum = 0
                  THEN IF totals.totalCaptured = totals.totalRefunded
                       THEN STATUS_REFUNDED
                       ELSE IF totals.totalCaptured = totals.totalChargedback
                            THEN STATUS_CHARGED_BACK
                            ELSE None
                  ELSE IF payment_sum > 0
                       THEN STATUS_PAID_REFUNDED
                       ELSE STATUS_UNKNOWN

\* A decision that looks at a payment sum of zero before it looks for a
\* full payment: C24 tells it from AuthorizedDecision.
AuthorizedDecisionZeroFirst(totals, margin) ==
    LET payment_sum == totals.totalCaptured - totals.totalChargedback
                         - totals.totalRefunded
    IN  IF totals.totalCaptured < totals.totalRegistered - margin
        THEN None
        ELSE IF payment_sum = 0
             THEN IF totals.totalCaptured = totals.totalRefunded
                  THEN STATUS_REFUNDED
                  ELSE IF totals.totalCaptured = totals.totalChargedback
                       THEN STATUS_CHARGED_BACK
                       ELSE None
        ELSE IF payment_sum >= totals.totalRegistered - margin
             THEN STATUS_PAID
        ELSE IF payment_sum > 0
             THEN STATUS_PAID_REFUNDED
        ELSE STATUS_UNKNOWN

\* Lines 540-621 with the margin given.
AuthorizedDecision(totals, margin) ==
    LET payment_sum == totals.totalCaptured - totals.totalChargedback
                         - totals.totalRefunded
        \* line 588: the chargeback test
        chargeback == IF totals.totalCaptured = totals.totalChargedback
                      THEN STATUS_CHARGED_BACK
                      ELSE None
        \* line 602: the refund test, which overwrites the chargeback result
        refund == IF totals.totalCaptured = totals.totalRefunded
                  THEN STATUS_REFUNDED
                  ELSE chargeback
    IN  IF totals.totalCaptured < totals.totalRegistered - margin
        THEN None
        ELSE IF payment_sum >= totals.totalRegistered - margin
             THEN STATUS_PAID
        ELSE IF payment_sum = 0
             THEN refund
        ELSE IF payment_sum > 0
             THEN STATUS_PAID_REFUNDED
        ELSE STATUS_UNKNOWN

\* A decision whose margin looks at the currency of the given entry alone:
\* C25 tells it from process_authorized_payment.
process_authorized_payment_of_line(order, report, payment) ==
    AuthorizedDecision(
        report.approximateTotals,
        IF /\ order.currency = report.approximateTotals.exchangedTo
           /\ payment.authorization.amount.currency # order.currency
           /\ DictGet(DOCDATA_PAYMENT_SUCCESS_MARGIN,
                      report.approximateTotals.exchangedTo, 0)
                < report.approximateTotals.totalRegistered
        THEN DictGet(DOCDATA_PAYMENT_SUCCESS_MARGIN,
                     report.approximateTotals.exchangedTo, 0)
        ELSE 0)

process_authorized_payment(order, report, payment) ==
    AuthorizedDecision(report.approximateTotals, PaymentMargin(order, report))

(***************************************************************************)
(* The effects of a pass, in the order the code produces them: the rows it *)
(* saves and the signals it sends.                                         *)
(***************************************************************************)
Effect(kind, payment_id, old_status, new_status) ==
    [kind |-> kind, payment_id |-> payment_id,
     old_status |-> old_status, new_status |-> new_status]

SavePayment(id) == Effect("save_payment", id, None, None)
PaymentAdded(id) == Effect("payment_added", id, None, None)
PaymentUpdated(id) == Effect("payment_updated", id, None, None)
SaveOrder == Effect("save_order", 0, None, None)
OrderStatusChanged(old, new) == Effect("order_status_changed", 0, old, new)

EventKinds == {"payment_added", "payment_updated", "order_status_changed"}
WriteKinds == {"save_payment", "save_order"}

(***************************************************************************)
(* _store_report_lines(order, report): one payment entry.                  *)
(***************************************************************************)
\* report_payments.sort(key=lambda payments: payments.id); list.sort is stable.
RECURSIVE InsertById(_, _)
InsertById(p, sorted) ==
    IF sorted = <<>>
    THEN <<p>>
    ELSE IF p.id < Head(sorted).id
         THEN <<p>> \o sorted
         ELSE <<Head(sorted)>> \o InsertById(p, Tail(sorted))

RECURSIVE SortInto(_, _)
SortInto(payments, sorted) ==
    IF payments = <<>>
    THEN sorted
    ELSE SortInto(Tail(payments), InsertById(Head(payments), sorted))

\* The entries as the gateway lists them: C4 tells it from sort_by_id.
sort_as_listed(payments) == payments

sort_by_id(payments) == SortInto(payments, <<>>)

\* payment_class(docdata_order=order, payment_id=..., payment_method=...):
\* the other fields take the model's defaults.
NewDocdataPayment(order, payment) ==
    [docdata_order |-> order.id,
     payment_id |-> payment.id,
     payment_method |-> payment.paymentMethod,
     confidence_level |-> "",
     amount_allocated |-> to_decimal_cents(0),
     amount_debited |-> to_decimal_cents(0),
     amount_refunded |-> to_decimal_cents(0),
     amount_chargeback |-> to_decimal_cents(0),
     status |-> GW_NEW]

\* Lines 339-351: the amount an authorization allocates.
AmountAllocated(payment) ==
    IF payment.authorization.status = GW_AUTHORIZED
    THEN to_decimal(payment.authorization.amount)
    ELSE to_decimal_cents(0)

\* Lines 339-344: the status the entry proposes (None: no proposal).
MaybeNewStatus(order, report, payment) ==
    IF payment.authorization.status = GW_AUTHORIZED
    THEN process_authorized_payment(order, report, payment)
    ELSE None

\* A line that counts as updated whether or not the report changes it: C3
\* tells it from PreparedLine.
PreparedLineAlwaysUpdated(dd0, dd1, payment, found) ==
    [ddpayment |-> dd1, added |-> ~found, updated |-> TRUE]

\* Lines 371-411: copy the report into the line dd0 (giving dd1) and note
\* whether anything changed.
PreparedLine(dd0, dd1, payment, found) ==
    [ddpayment |-> dd1,
     added |-> ~found,
     updated |->
        \/ payment.paymentMethod # dd0.payment_method
        \/ <<dd0.confidence_level, dd0.amount_allocated, dd0.amount_chargeback,
             dd0.amount_refunded, dd0.amount_debited>>
           # <<dd1.confidence_level, dd1.amount_allocated, dd1.amount_chargeback,
               dd1.amount_refunded, dd1.amount_debited>>
        \/ dd0.status # payment.authorization.status]

\* A line that takes a status from the report only when the mapping table
\* has it: C17 tells it from ReportedLine.
ReportedLineOfKnownStatus(dd0, payment) ==
    [dd0 EXCEPT
       !.payment_method = payment.paymentMethod,
       !.confidence_level = payment.authorization.confidenceLevel,
       !.amount_allocated = AmountAllocated(payment),
       !.amount_debited = get_payment_sum(payment, "capture", "CAPTURED"),
       !.amount_refunded = get_payment_sum(payment, "refund", "CAPTURED"),
       !.amount_chargeback = get_payment_sum(payment, "chargeback", "CHARGED"),
       !.status = IF payment.authorization.status \in DOMAIN status_mapping
                  THEN payment.authorization.status
                  ELSE dd0.status]

\* Lines 378-410: the fields the report sets.
ReportedLine(dd0, payment) ==
    [dd0 EXCEPT
       !.payment_method = payment.paymentMethod,
       !.confidence_level = payment.authorization.confidenceLevel,
       !.amount_allocated = AmountAllocated(payment),
       !.amount_debited = get_payment_sum(payment, "capture", "CAPTURED"),
       !.amount_refunded = get_payment_sum(payment, "refund", "CAPTURED"),
       !.amount_chargeback = get_payment_sum(payment, "chargeback", "CHARGED"),
       !.status = payment.authorization.status]

PrepareFound(dd0, payment, found) ==
    PreparedLine(dd0, ReportedLine(dd0, payment), payment, found)

\* A lookup that hands a found line over to the order of the pass: C20 tells
\* it from PrepareLine.
PrepareLineTakingOver(payments, order, payment) ==
    IF payment.id \in DOMAIN payments
    THEN PrepareFound([payments[payment.id] EXCEPT !.docdata_order = order.id],
                      payment, TRUE)
    ELSE PrepareFound(NewDocdataPayment(order, payment), payment, FALSE)

\* Lines 360-369: select_for_update().get(payment_id=...), or a new line.
\* payments is the DocdataPayment table.
PrepareLine(payments, order, payment) ==
    IF payment.id \in DOMAIN payments
    THEN PrepareFound(payments[payment.id], payment, TRUE)
    ELSE PrepareFound(NewDocdataPayment(order, payment), payment, FALSE)

\* logger.warn("... payment id {0}: {1}".format(payment.id)) on line 422:
\* the format string names two positional fields and is given one argument.
RaceWarningFields == 2
RaceWarningArgs == 1
FormatRaises(fields, args) == fields > args

\* ddpayment.save() of a constructed line is an INSERT: the table's unique
\* payment_id refuses it when a row with that id exists.
InsertViolatesUnique(payments, ddpayment) ==
    ddpayment.payment_id \in DOMAIN payments

\* The table with the line written.
PutPayment(payments, ddpayment) ==
    [id \in DOMAIN payments \cup {ddpayment.payment_id} |->
        IF id = ddpayment.payment_id THEN ddpayment ELSE payments[id]]

\* A save that signals every saved line as added: C19 tells it from
\* PersistLine.
PersistLineAsAdded(payments, prep) ==
    IF ~(prep.added \/ prep.updated)
    THEN [payments |-> payments, log |-> <<>>, exc |-> None]
    ELSE IF ~(prep.added /\ InsertViolatesUnique(payments, prep.ddpayment))
    THEN [payments |-> PutPayment(payments, prep.ddpayment),
          log |-> <<SavePayment(prep.ddpayment.payment_id),
                    PaymentAdded(prep.ddpayment.payment_id)>>,
          exc |-> None]
    ELSE [payments |-> payments, log |-> <<>>, exc |-> "IndexError"]

\* Lines 413-435: save the line and send its signal.  The result is the
\* table, the effects and the exception that leaves the method (or None).
PersistLine(payments, prep) ==
    IF ~(prep.added \/ prep.updated)
    THEN [payments |-> payments, log |-> <<>>, exc |-> None]
    ELSE IF ~(prep.added /\ InsertViolatesUnique(payments, prep.ddpayment))
    THEN [payments |-> PutPayment(payments, prep.ddpayment),
          log |-> <<SavePayment(prep.ddpayment.payment_id),
                    IF prep.added
                    THEN PaymentAdded(prep.ddpayment.payment_id)
                    ELSE PaymentUpdated(prep.ddpayment.payment_id)>>,
          exc |-> None]
    \* IntegrityError: the savepoint is rolled back, then line 422 runs
    ELSE IF FormatRaises(RaceWarningFields, RaceWarningArgs)
    THEN [payments |-> payments, log |-> <<>>, exc |-> "IndexError"]
    \* lines 426-428: overwrite the existing row, added = False
    ELSE [payments |-> PutPayment(payments, prep.ddpayment),
          log |-> <<SavePayment(prep.ddpayment.payment_id),
                    PaymentUpdated(prep.ddpayment.payment_id)>>,
          exc |-> None]

(***************************************************************************)
(* _store_report_lines(order, report)                                      *)
(***************************************************************************)
\* Lines 343-344 and 413-437: the loop's variables after one entry, given
\* the entry's proposal and the outcome of saving its line.
AfterLine(acc, maybe_new_status, saved) ==
    [payments |-> saved.payments,
     new_status |-> IF maybe_new_status # None
                    THEN maybe_new_status
                    ELSE acc.new_status,
     log |-> acc.log \o saved.log,
     exc |-> saved.exc]

\* Lines 334-438: one iteration.
ReconcileLine(acc, order, report, payment) ==
    AfterLine(acc,
              MaybeNewStatus(order, report, payment),
              PersistLine(acc.payments,
                          PrepareLine(acc.payments, order, payment)))

\* Lines 321-438: the loop over the sorted entries.  acc holds the table,
\* the candidate status, the effects so far and the exception (or None);
\* an exception ends the loop.
RECURSIVE LinesLoop(_, _, _, _)
LinesLoop(acc, order, report, rest) ==
    IF rest = <<>> \/ acc.exc # None
    THEN acc
    ELSE LinesLoop(ReconcileLine(acc, order, report, Head(rest)),
                   order, report, Tail(rest))

\* The static mapping of the first (lowest id) line's status: C10 tells it
\* from FallbackStatus.
FallbackStatusOfFirst(report_payments) ==
    MappedStatus(report_payments[1].authorization.status)

\* Line 451: the static mapping of the last (highest id) line's status.
FallbackStatus(report_payments) ==
    MappedStatus(report_payments[Len(report_payments)].authorization.status)

\* A status that is taken as computed, whatever the order's status: C11
\* tells it from KeepClosed.
KeepComputed(order, new_status) == new_status

\* Lines 456-458: stay in cancelled/expired, don't switch back to NEW.
KeepClosed(order, new_status) ==
    IF /\ order.status \in {STATUS_EXPIRED, STATUS_CANCELLED}
       /\ new_status \in {STATUS_NEW, STATUS_IN_PROGRESS}
    THEN order.status
    ELSE new_status

\* Lines 441-458: the status the method returns, given the loop's candidate.
ResolveLinesStatus(order, report_payments, candidate) ==
    IF candidate = None
    THEN KeepClosed(order, FallbackStatus(report_payments))
    ELSE candidate

\* What the method leaves behind, given the loop's final variables.
LinesResult(order, report_payments, loop) ==
    [payments |-> loop.payments,
     log |-> loop.log,
     exc |-> loop.exc,
     candidate |-> loop.new_status,
     fallback |-> IF loop.new_status = None
                  THEN FallbackStatus(report_payments)
                  ELSE None,
     new_status |-> ResolveLinesStatus(order, report_payments, loop.new_status)]

StoreSortedLines(order, payments, report, report_payments) ==
    LinesResult(order, report_payments,
                LinesLoop([payments |-> payments, new_status |-> None,
                           log |-> <<>>, exc |-> None],
                          order, report, report_payments))

store_report_lines(order, payments, report) ==
    StoreSortedLines(order, payments, report, sort_by_id(report.payment))

(***************************************************************************)
(* _set_status, order_status_changed, _store_report                        *)
(***************************************************************************)
\* An assignment that stores the status as given: C15 tells it from
\* set_status.
set_status_as_given(order, new_status) ==
    IF order.status # new_status
    THEN [order |-> [order EXCEPT !.status = new_status], changed |-> TRUE]
    ELSE [order |-> order, changed |-> FALSE]

\* _set_status(order, new_status): the order and whether it changed.
set_status(order, new_status) ==
    IF order.status # new_status
    THEN [order |-> [order EXCEPT !.status =
                        IF new_status \notin STATUS_CHOICES
                        THEN STATUS_UNKNOWN
                        ELSE new_status],
          changed |-> TRUE]
    ELSE [order |-> order, changed |-> FALSE]

\* A notification that is sent whether or not the statuses differ: C16 tells
\* it from order_status_changed.
order_status_changed_always(old_status, new_status) ==
    <<OrderStatusChanged(old_status, new_status)>>

\* order_status_changed(docdataorder, old_status, new_status)
order_status_changed(old_status, new_status) ==
    IF old_status = new_status
    THEN <<>>
    ELSE <<OrderStatusChanged(old_status, new_status)>>

\* Lines 242-247: every total but totalRegistered is zero.
AllTotalsZero(totals) ==
    /\ totals.totalShopperPending = 0
    /\ totals.totalAcquirerPending = 0
    /\ totals.totalAcquirerApproved = 0
    /\ totals.totalCaptured = 0
    /\ totals.totalRefunded = 0
    /\ totals.totalChargedback = 0

\* An order that expires on its 21st day: C7 tells it from OrderExpired.
OrderExpiredOnTheDay(order, now) == order.created <= now - EXPIRY_DAYS

\* Line 252: order.created < (now() - timedelta(days=21)), in days.
OrderExpired(order, now) == order.created < now - EXPIRY_DAYS

\* indented_status or default
OrDefault(indented_status, default) ==
    IF indented_status = None THEN default ELSE indented_status

\* A decision that does not look at a cancelled order's status when the
\* totals are zero: C6 tells it from NoPaymentStatus.
NoPaymentStatusOfAnyOrder(order, totals, indented_status, now) ==
    IF AllTotalsZero(totals)
    THEN IF OrderExpired(order, now)
         THEN OrDefault(indented_status, STATUS_EXPIRED)
         ELSE OrDefault(indented_status, STATUS_NEW)
    ELSE IF order.status \in {STATUS_EXPIRED, STATUS_CANCELLED}
         THEN order.status
         ELSE OrDefault(indented_status, STATUS_NEW)

\* Lines 242-268: the status of a report without payment entries.
NoPaymentStatus(order, totals, indented_status, now) ==
    IF AllTotalsZero(totals)
    THEN IF order.status = STATUS_CANCELLED
         THEN order.status
         ELSE IF OrderExpired(order, now)
              THEN OrDefault(indented_status, STATUS_EXPIRED)
              ELSE OrDefault(indented_status, STATUS_NEW)
    ELSE IF order.status \in {STATUS_EXPIRED, STATUS_CANCELLED}
         THEN order.status
         ELSE OrDefault(indented_status, STATUS_NEW)

\* Lines 225-232: the totals snapshot.
StoreTotals(order, totals) ==
    [order EXCEPT
       !.total_registered = to_decimal_cents(totals.totalRegistered),
       !.total_shopper_pending = to_decimal_cents(totals.totalShopperPending),
       !.total_acquirer_pending = to_decimal_cents(totals.totalAcquirerPending),
       !.total_acquirer_approved = to_decimal_cents(totals.totalAcquirerApproved),
       !.total_captured = to_decimal_cents(totals.totalCaptured),
       !.total_refunded = to_decimal_cents(totals.totalRefunded),
       !.total_charged_back = to_decimal_cents(totals.totalChargedback)]

\* hasattr(report, 'payment'): the reply carries the element only when
\* there are entries.
HasPayments(report) == report.payment # <<>>

\* Lines 234-268: the outcome of the lines, or of the totals alone.
ReportOutcome(order, payments, report, indented_status, now) ==
    IF HasPayments(report)
    THEN store_report_lines(order, payments, report)
    ELSE [payments |-> payments, log |-> <<>>, exc |-> None,
          candidate |-> None, fallback |-> None,
          new_status |-> NoPaymentStatus(order, report.approximateTotals,
                                         indented_status, now)]

\* An assignment that notifies the change before the effects of the lines:
\* C13 tells it from Assigned.
AssignedNotifyingFirst(order, lines, set) ==
    IF lines.exc # None
    THEN [order |-> order, saved |-> FALSE, payments |-> lines.payments,
          log |-> lines.log, exc |-> lines.exc,
          candidate |-> lines.candidate, fallback |-> lines.fallback,
          new_status |-> lines.new_status]
    ELSE [order |-> set.order, saved |-> TRUE, payments |-> lines.payments,
          log |-> (IF set.changed
                   THEN order_status_changed(order.status, set.order.status)
                   ELSE <<>>)
                   \o lines.log \o <<SaveOrder>>,
          exc |-> None,
          candidate |-> lines.candidate, fallback |-> lines.fallback,
          new_status |-> lines.new_status]

\* Lines 270-276: the status is assigned (set), the order saved, the change
\* notified.  saved tells whether order.save() ran: it does not when an
\* exception left _store_report_lines.
Assigned(order, lines, set) ==
    IF lines.exc # None
    THEN [order |-> order, saved |-> FALSE, payments |-> lines.payments,
          log |-> lines.log, exc |-> lines.exc,
          candidate |-> lines.candidate, fallback |-> lines.fallback,
          new_status |-> lines.new_status]
    ELSE [order |-> set.order, saved |-> TRUE, payments |-> lines.payments,
          log |-> lines.log \o <<SaveOrder>>
                   \o (IF set.changed
                       THEN order_status_changed(order.status, set.order.status)
                       ELSE <<>>),
          exc |-> None,
          candidate |-> lines.candidate, fallback |-> lines.fallback,
          new_status |-> lines.new_status]

AssignStatus(order, lines) ==
    Assigned(order, lines, set_status(order, lines.new_status))

StoreReportWithTotals(order, payments, report, indented_status, now) ==
    AssignStatus(order,
                 ReportOutcome(order, payments, report, indented_status, now))

store_report(order, payments, report, indented_status, now) ==
    StoreReportWithTotals(StoreTotals(order, report.approximateTotals),
                          payments, report, indented_status, now)

(***************************************************************************)
(* Status reports of the gateway.                                          *)
(***************************************************************************)
Amount(value, currency) == [value |-> value, currency |-> currency]

\* A capture, refund or chargeback item.
Tag(status, value, currency) ==
    [status |-> status, amount |-> Amount(value, currency)]

ReportPayment(id, paymentMethod, status, amount, confidenceLevel, capture, refund, chargeback) ==
    [id |-> id,
     paymentMethod |-> paymentMethod,
     authorization |->
        [status |-> status, amount |-> amount,
         confidenceLevel |-> confidenceLevel,
         capture |-> capture, refund |-> refund, chargeback |-> chargeback]]

ApproximateTotals(registered, shopperPending, acquirerPending, acquirerApproved, captured, refunded, chargedback, exchangedTo) ==
    [totalRegistered |-> registered,
     totalShopperPending |-> shopperPending,
     totalAcquirerPending |-> acquirerPending,
     totalAcquirerApproved |-> acquirerApproved,
     totalCaptured |-> captured,
     totalRefunded |-> refunded,
     totalChargedback |-> chargedback,
     exchangedTo |-> exchangedTo]

StatusReport(totals, payment) ==
    [approximateTotals |-> totals, payment |-> payment]

EmptyReport == StatusReport(ApproximateTotals(0, 0, 0, 0, 0, 0, 0, "EUR"), <<>>)

\* The items of one kind that add up to value: nothing for zero, else a
\* successful item and a failed attempt that must not be counted.
Items(value, success_status, currency) ==
    IF value = 0
    THEN <<>>
    ELSE <<Tag("FAILED", value, currency), Tag(success_status, value, currency)>>

\* An entry whose authorization has the given status and no money moved.
LineWithStatus(id, status, currency) ==
    ReportPayment(id, "IDEAL", status, Amount(1000, currency), "",
                  <<>>, <<>>, <<>>)

\* An AUTHORIZED entry with the given captured, refunded and charged back
\* amounts.
LineAuthorized(id, currency, captured, refunded, chargedback) ==
    ReportPayment(id, "IDEAL", GW_AUTHORIZED, Amount(1000, currency),
                  "ACQUIRER_APPROVED",
                  Items(captured, "CAPTURED", currency),
                  Items(refunded, "CAPTURED", currency),
                  Items(chargedback, "CHARGED", currency))

(***************************************************************************)
(* State.                                                                  *)
(***************************************************************************)
VARIABLES
    dbOrders,     \* the DocdataOrder rows, by order
    dbPayments,   \* the DocdataPayment rows, by payment_id (unique)
    today,        \* now(), in days since the orders were created
    last,         \* the operation that completed last, with its effects
    passes        \* the passes in progress, by trigger

vars == <<dbOrders, dbPayments, today, last, passes>>

OrderIds == {"o1", "o2"}
OrderCurrency == ("o1" :> "EUR") @@ ("o2" :> "USD")

\* The two triggers that race on an order: the gateway's notification and
\* the user's return to the shop.
Triggers == {"notification", "return"}

\* _store_create_success: the row of a new order (lines 142-150).
NewOrder(o) ==
    [id |-> o,
     status |-> STATUS_NEW,
     currency |-> OrderCurrency[o],
     total_gross_amount |-> to_decimal_cents(1000),
     created |-> 0,
     total_registered |-> to_decimal_cents(0),
     total_shopper_pending |-> to_decimal_cents(0),
     total_acquirer_pending |-> to_decimal_cents(0),
     total_acquirer_approved |-> to_decimal_cents(0),
     total_captured |-> to_decimal_cents(0),
     total_refunded |-> to_decimal_cents(0),
     total_charged_back |-> to_decimal_cents(0)]

\* No line is stored.
NoPayments == [id \in {} |-> 0]

\* The record of a completed operation: what it was given, what it found
\* and, in order, what it wrote and signalled.  seq alternates, so that an
\* operation that changes nothing is still a step; replay tells that the
\* operation repeats the one before it (the same pass on the same order
\* with the same report on the same day, both without an exception).
Record(seq, replay, op, o, report, indented_status, old_status, now, res) ==
    [seq |-> seq, replay |-> replay, op |-> op, order |-> o,
     report |-> report, indented_status |-> indented_status,
     old_status |-> old_status, now |-> now,
     candidate |-> res.candidate, fallback |-> res.fallback,
     new_status |-> res.new_status, log |-> res.log, exc |-> res.exc]

Passes == {"update_order", "cancel_order"}

Repeats(op, o, report, now, res) ==
    /\ op \in Passes
    /\ last.op = op /\ last.order = o /\ last.report = report
    /\ last.now = now
    /\ last.exc = None /\ res.exc = None

Completed(op, o, report, indented_status, old_status, now, res) ==
    Record(1 - last.seq, Repeats(op, o, report, now, res), op, o, report,
           indented_status, old_status, now, res)

NoResult(log, exc) ==
    [candidate |-> None, fallback |-> None, new_status |-> None,
     log |-> log, exc |-> exc]

NoPrep ==
    [ddpayment |-> NewDocdataPayment(NewOrder("o1"),
                                     LineWithStatus(0, GW_NEW, "EUR")),
     added |-> FALSE, updated |-> FALSE]

IdlePass ==
    [pc |-> "idle", order |-> NewOrder("o1"), report |-> EmptyReport,
     indented_status |-> None, rest |-> <<>>,
     new_status |-> None, prep |-> NoPrep, log |-> <<>>, exc |-> None]

\* The state after create_payment has stored the orders.
InitFresh ==
    /\ dbOrders = [o \in OrderIds |-> NewOrder(o)]
    /\ dbPayments = NoPayments
    /\ last = Record(0, FALSE, "init", "o1", EmptyReport, None, STATUS_NEW,
                     0, NoResult(<<>>, None))
    /\ passes = [t \in Triggers |-> IdlePass]

(***************************************************************************)
(* Operations, each run to completion.                                     *)
(***************************************************************************)
\* update_order(order) and cancel_order(order) once the gateway has
\* answered with report: _store_report(order, report, indented_status).
PassCompletes(op, o, report, indented_status, res) ==
    /\ dbOrders' = IF res.saved THEN [dbOrders EXCEPT ![o] = res.order]
                                ELSE dbOrders
    /\ dbPayments' = res.payments
    /\ last' = Completed(op, o, report, indented_status,
                         dbOrders[o].status, today, res)
    /\ UNCHANGED <<today, passes>>

RunPass(op, o, report, indented_status) ==
    PassCompletes(op, o, report, indented_status,
                  store_report(dbOrders[o], dbPayments, report,
                               indented_status, today))

\* update_order(order): lines 206-215 when client.status answers.
update_order(o, report) ==
    /\ o \in OrderIds
    /\ RunPass("update_order", o, report, None)

\* cancel_order(order): lines 192-198 when client.cancel and client.status
\* answer.
cancel_order(o, report) ==
    /\ o \in OrderIds
    /\ RunPass("cancel_order", o, report, STATUS_CANCELLED)

\* start_payment(order, payment): lines 174-184 when client.start succeeds.
start_payment(o) ==
    /\ dbOrders' = [dbOrders EXCEPT
                      ![o] = set_status(dbOrders[o], STATUS_IN_PROGRESS).order]
    /\ last' = Completed("start_payment", o, EmptyReport,
                         None, dbOrders[o].status, today,
                         NoResult(<<SaveOrder>>, None))
    /\ UNCHANGED <<dbPayments, today, passes>>

\* A gateway call of the operation raises (or update_order finds another
\* merchant's client): the exception leaves the method before any write.
GatewayExceptions == {"DocdataStatusError", "InvalidMerchant"}

\* A failure that leaves the method after the status was assigned and the
\* order saved: C18 tells it from operation_fails.
operation_fails_after_save(op, o, exc) ==
    /\ exc = "InvalidMerchant" => op = "update_order"
    /\ dbOrders' = [dbOrders EXCEPT
                      ![o] = set_status(dbOrders[o], STATUS_IN_PROGRESS).order]
    /\ last' = Completed(op, o, EmptyReport, None,
                         dbOrders[o].status, today, NoResult(<<SaveOrder>>, exc))
    /\ UNCHANGED <<dbPayments, today, passes>>

operation_fails(op, o, exc) ==
    /\ exc = "InvalidMerchant" => op = "update_order"
    /\ last' = Completed(op, o, EmptyReport, None,
                         dbOrders[o].status, today, NoResult(<<>>, exc))
    /\ UNCHANGED <<dbOrders, dbPayments, today, passes>>

\* Time passes.
ExtraDays == 1

Tick ==
    /\ today < EXPIRY_DAYS + ExtraDays
    /\ today' = today + 1
    /\ UNCHANGED <<dbOrders, dbPayments, last, passes>>

(***************************************************************************)
(* Spec: any sequence of operations on one order, over the reports of a    *)
(* payment's life: nothing yet, an attempt, a capture in part and in full, *)
(* a refund, a chargeback, a cancellation, a second attempt.               *)
(***************************************************************************)
\* Totals in the order's currency with nothing pending at the acquirer.
EuroTotals(registered, shopperPending, captured, refunded, chargedback) ==
    ApproximateTotals(registered, shopperPending, 0, 0, captured, refunded,
                      chargedback, "EUR")

\* A report whose single AUTHORIZED entry accounts for the totals.
AuthorizedReport(captured, refunded, chargedback) ==
    StatusReport(EuroTotals(1000, 0, captured, refunded, chargedback),
                 <<LineAuthorized(1, "EUR", captured, refunded, chargedback)>>)

\* Both orders in which the gateway may list two entries.
BothOrders(a, b, totals) ==
    {StatusReport(totals, <<a, b>>), StatusReport(totals, <<b, a>>)}

SeqReports ==
    { StatusReport(EuroTotals(1000, 0, 0, 0, 0), <<>>),
      StatusReport(EuroTotals(1000, 1000, 0, 0, 0), <<>>),
      StatusReport(EuroTotals(1000, 1000, 0, 0, 0),
                   <<LineWithStatus(1, GW_NEW, "EUR")>>),
      StatusReport(EuroTotals(1000, 0, 0, 0, 0),
                   <<LineWithStatus(1, GW_CANCELLED, "EUR")>>),
      StatusReport(EuroTotals(1000, 1000, 0, 0, 0),
                   <<LineWithStatus(1, GW_UNDOCUMENTED, "EUR")>>),
      AuthorizedReport(400, 0, 0),
      AuthorizedReport(1000, 0, 0),
      AuthorizedReport(1000, 200, 0),
      AuthorizedReport(1000, 1000, 0),
      AuthorizedReport(1000, 0, 1000),
      AuthorizedReport(1000, 800, 800) }
    \cup BothOrders(LineAuthorized(1, "EUR", 400, 0, 0),
                    LineWithStatus(2, GW_NEW, "EUR"),
                    EuroTotals(1000, 0, 400, 0, 0))
    \cup BothOrders(LineWithStatus(1, GW_CANCELLED, "EUR"),
                    LineAuthorized(2, "EUR", 1000, 0, 0),
                    EuroTotals(1000, 0, 1000, 0, 0))

Operations == {"update_order", "cancel_order", "start_payment"}

Init ==
    /\ InitFresh
    /\ today = EXPIRY_DAYS

Next ==
    \/ \E r \in SeqReports : update_order("o1", r)
    \/ \E r \in SeqReports : cancel_order("o1", r)
    \/ start_payment("o1")
    \/ \E op \in Operations, exc \in GatewayExceptions :
           operation_fails(op, "o1", exc)
    \/ Tick

Spec == Init /\ [][Next]_vars

(***************************************************************************)
(* SpecPass: one operation of Spec brings the order to some status, then   *)
(* one pass runs on a report of a wider set: every combination of zero and *)
(* non-zero totals without entries, every authorization status on a single *)
(* entry, and up to MaxPaymentId entries in every order.                   *)
(***************************************************************************)
MaxPaymentId == 3

PaymentIds == 1..MaxPaymentId

\* The authorization statuses the gateway documents or has been seen to
\* send, and one it has not.
AuthorizationStatuses ==
    DOMAIN status_mapping \cup {GW_AUTHORIZATION_FAILED, GW_UNDOCUMENTED}

\* The statuses given to the entries of a report with several entries.
SomeStatuses == {GW_AUTHORIZED, GW_NEW, GW_CANCELLED}

\* Reports without entries: each total but totalRegistered zero or not.
Bit == {0, 1}

NoPaymentReports ==
    { StatusReport(ApproximateTotals(1000, sp, ap, aa, c, rf, cb, "EUR"), <<>>) :
        sp \in Bit, ap \in Bit, aa \in Bit, c \in Bit, rf \in Bit, cb \in Bit }

\* The entry with this id and status.
LineFor(id, status) ==
    IF status = GW_AUTHORIZED
    THEN LineAuthorized(id, "EUR", 400, 0, 0)
    ELSE LineWithStatus(id, status, "EUR")

\* Totals of a payment captured in part and captured in full.
LinesTotals ==
    { EuroTotals(1000, 0, 400, 0, 0), EuroTotals(1000, 0, 1000, 0, 0) }

\* The ways to list n entries with distinct ids.
IdOrders(n) ==
    { ids \in [1..n -> PaymentIds] :
        \A i \in 1..n, j \in 1..n : i # j => ids[i] # ids[j] }

SingleLineReports ==
    { StatusReport(t, <<LineFor(id, st)>>) :
        t \in LinesTotals, id \in PaymentIds, st \in AuthorizationStatuses }

SeveralLinesReports ==
    UNION { UNION { { StatusReport(t, [i \in 1..n |-> LineFor(ids[i], st[i])]) :
                        t \in LinesTotals, st \in [1..n -> SomeStatuses] } :
                    ids \in IdOrders(n) } :
            n \in 2..MaxPaymentId }

PassReports == NoPaymentReports \cup SingleLineReports \cup SeveralLinesReports

\* The reports that bring the order to each of its statuses.
BeforeReports ==
    { StatusReport(EuroTotals(1000, 0, 0, 0, 0), <<>>),
      StatusReport(EuroTotals(1000, 0, 0, 0, 0),
                   <<LineWithStatus(1, GW_CANCELLED, "EUR")>>),
      StatusReport(EuroTotals(1000, 1000, 0, 0, 0),
                   <<LineWithStatus(1, GW_UNDOCUMENTED, "EUR")>>),
      AuthorizedReport(400, 0, 0),
      AuthorizedReport(1000, 0, 0),
      AuthorizedReport(1000, 200, 0),
      AuthorizedReport(1000, 1000, 0),
      AuthorizedReport(1000, 0, 1000) }

InitPass == Init

NextPass ==
    \/ last.op = "init" /\ \E r \in BeforeReports : update_order("o1", r)
    \/ last.op = "init" /\ start_payment("o1")
    \/ last.seq = 1 /\ \E r \in PassReports : update_order("o1", r)
    \/ last.seq = 1 /\ \E r \in PassReports : cancel_order("o1", r)
    \/ last.op = "init" /\ Tick

SpecPass == InitPass /\ [][NextPass]_vars

(***************************************************************************)
(* Properties of Spec.                                                     *)
(***************************************************************************)
\* The signals and the writes among the effects of an operation.
Events(log) == SelectSeq(log, LAMBDA e : e.kind \in EventKinds)
Writes(log) == SelectSeq(log, LAMBDA e : e.kind \in WriteKinds)

\* This step is a pass that repeats the pass before it.
Replayed == last'.seq # last.seq /\ last'.replay

\* C3, as claimed: a second pass with the identical report on the order the
\* first pass reconciled sends no signal and writes nothing, neither a
\* payment line nor the order.
C3_ReplayWritesNothing ==
    [][Replayed => Events(last'.log) = <<>> /\ Writes(last'.log) = <<>>]_vars

\* C3, amended: a second pass with the identical report sends no signal and
\* saves no payment line; its one write is the order save, which stores
\* what is stored already.
C3_ReplayOnlySavesOrder ==
    [][Replayed =>
         /\ Events(last'.log) = <<>>
         /\ Writes(last'.log) = <<SaveOrder>>
         /\ dbOrders' = dbOrders
         /\ dbPayments' = dbPayments]_vars

\* A replayed pass over a report with two payment entries has completed.
C3_Witness ==
    /\ last.replay
    /\ Len(last.report.payment) = 2
    /\ DOMAIN dbPayments = {1, 2}

ClosedStatuses == {STATUS_CANCELLED, STATUS_EXPIRED}
OpenStatuses == {STATUS_NEW, STATUS_IN_PROGRESS}

\* C5: once the status of an order is CANCELLED or EXPIRED, no operation
\* other than cancel_order changes it to NEW or IN_PROGRESS.
C5_ClosedNeverReopens ==
    [][\A o \in OrderIds :
         (dbOrders[o].status \in ClosedStatuses /\ last'.op # "cancel_order")
            => dbOrders'[o].status \notin OpenStatuses]_vars

(***************************************************************************)
(* Properties of SpecPass.                                                 *)
(***************************************************************************)
\* The last operation was a pass.
IsPass == last.op \in Passes

\* The status of the order the last operation was about.
StatusNow == dbOrders[last.order].status

\* The six totals of the decision on a report without entries.
SixTotalsZero(report) ==
    /\ report.approximateTotals.totalShopperPending = 0
    /\ report.approximateTotals.totalAcquirerPending = 0
    /\ report.approximateTotals.totalAcquirerApproved = 0
    /\ report.approximateTotals.totalCaptured = 0
    /\ report.approximateTotals.totalRefunded = 0
    /\ report.approximateTotals.totalChargedback = 0

\* The listings of the same entries in every order.
Reorderings(payment) ==
    { [i \in 1..Len(payment) |-> payment[f[i]]] :
        f \in Permutations(1..Len(payment)) }

\* The entries are listed by ascending payment id.
Ascending(payment) ==
    \A i \in 1..(Len(payment) - 1) : payment[i].id < payment[i + 1].id

\* C4: from the same stored state, a pass on any permutation of a report's
\* payment entries leaves the same order status and the same payment lines
\* as the pass on the report with its entries in ascending id order, hence
\* the same as the pass on any other permutation.
C4_OrderOfEntriesIrrelevant ==
    [][(/\ last'.seq # last.seq
        /\ last'.op \in Passes
        /\ Ascending(last'.report.payment)) =>
         \A p \in Reorderings(last'.report.payment) :
            LET other == store_report(
                           dbOrders[last'.order], dbPayments,
                           StatusReport(last'.report.approximateTotals, p),
                           last'.indented_status, today)
            IN  /\ other.order.status = dbOrders'[last'.order].status
                /\ other.payments = dbPayments']_vars

\* A pass has run on a report of three entries in ascending order whose
\* first and last entries map to different statuses, so that the status
\* depends on which entry counts as the last.
C4_Witness ==
    /\ IsPass
    /\ Len(last.report.payment) = 3
    /\ Ascending(last.report.payment)
    /\ last.report.payment[1].authorization.status = GW_NEW
    /\ last.report.payment[3].authorization.status = GW_CANCELLED
    /\ last.candidate = None
    /\ last.old_status = STATUS_PAID
    /\ StatusNow = STATUS_CANCELLED
    /\ DOMAIN dbPayments = {1, 2, 3}

\* C6: a pass on a report without payment entries and with all six totals
\* zero leaves a CANCELLED order CANCELLED, whatever its age and whatever
\* status the caller intends.
C6_CancelledStaysCancelled ==
    (/\ IsPass
     /\ last.exc = None
     /\ last.old_status = STATUS_CANCELLED
     /\ last.report.payment = <<>>
     /\ SixTotalsZero(last.report))
        => StatusNow = STATUS_CANCELLED

\* update_order has run on a CANCELLED order older than 21 days with such
\* a report.
C6_Witness ==
    /\ last.op = "update_order"
    /\ last.old_status = STATUS_CANCELLED
    /\ last.report.payment = <<>>
    /\ SixTotalsZero(last.report)
    /\ last.now - dbOrders[last.order].created > 21
    /\ StatusNow = STATUS_CANCELLED

\* The status the caller intends, or else the given one.
IntendedOr(status) ==
    IF last.indented_status # None THEN last.indented_status ELSE status

\* The decision table for a report without payment entries.
C7_Table ==
    IF SixTotalsZero(last.report)
    THEN IF last.old_status = STATUS_CANCELLED
         THEN STATUS_CANCELLED
         ELSE IF last.now - dbOrders[last.order].created > 21
              THEN IntendedOr(STATUS_EXPIRED)
              ELSE IntendedOr(STATUS_NEW)
    ELSE IF last.old_status \in {STATUS_EXPIRED, STATUS_CANCELLED}
         THEN last.old_status
         ELSE IntendedOr(STATUS_NEW)

\* C7: after a pass on a report without payment entries the status of the
\* order is the one the decision table gives for the six totals, the
\* status before the pass, the order's age and the intended status.
C7_NoPaymentDecision ==
    (IsPass /\ last.exc = None /\ last.report.payment = <<>>)
        => /\ last.new_status = C7_Table
           /\ StatusNow = C7_Table

\* update_order has expired a 22 days old order that was not cancelled.
C7_Witness ==
    /\ last.op = "update_order"
    /\ last.report.payment = <<>>
    /\ SixTotalsZero(last.report)
    /\ last.old_status = STATUS_PAID
    /\ last.now - dbOrders[last.order].created = 22
    /\ StatusNow = STATUS_EXPIRED

\* The entry of the report with the highest payment id.
HighestEntry(report) ==
    CHOOSE p \in {report.payment[i] : i \in DOMAIN report.payment} :
        \A i \in DOMAIN report.payment : report.payment[i].id <= p.id

\* The static mapping, as the table of authorization statuses reads.
C10_Table(auth_status) ==
    CASE auth_status \in {"NEW", "STARTED"} -> STATUS_NEW
      [] auth_status = "REDIRECTED_FOR_AUTHENTICATION" -> STATUS_IN_PROGRESS
      [] auth_status \in {"AUTHORIZATION_REQUESTED", "AUTHORIZED", "PAID"}
            -> STATUS_PENDING
      [] auth_status \in {"CANCELLED", "CLOSED_CANCELLED"} -> STATUS_CANCELLED
      [] auth_status \in {"CHARGED_BACK", "CONFIRMED_CHARGEDBACK"}
            -> STATUS_CHARGED_BACK
      [] auth_status \in {"CONFIRMED_PAID", "CLOSED_SUCCESS"} -> STATUS_PAID
      [] OTHER -> STATUS_UNKNOWN

\* C10: when no entry of a report with payment entries yields a candidate,
\* the computed status is the static mapping of the authorization status of
\* the entry with the highest payment id, UNKNOWN when the table has no such
\* status; it becomes the order's status unless the order is EXPIRED or
\* CANCELLED and the mapping gives NEW or IN_PROGRESS.
C10_FallbackToLastLine ==
    (IsPass /\ last.exc = None /\ last.report.payment # <<>>
       /\ last.candidate = None)
        => LET mapped == C10_Table(HighestEntry(last.report).authorization.status)
           IN  /\ last.fallback = mapped
               /\ ~(last.old_status \in ClosedStatuses /\ mapped \in OpenStatuses)
                     => StatusNow = mapped

\* A pass found no candidate in a report (Registered 1000, Captured 400)
\* that lists its highest entry first, and mapped that entry's status.
C10_Witness ==
    /\ IsPass
    /\ Len(last.report.payment) = 2
    /\ last.report.approximateTotals.totalRegistered = 1000
    /\ last.report.approximateTotals.totalCaptured = 400
    /\ last.report.payment[1].id = 2
    /\ last.report.payment[1].authorization.status = GW_NEW
    /\ last.report.payment[2].authorization.status = GW_AUTHORIZED
    /\ last.candidate = None
    /\ last.fallback = STATUS_NEW
    /\ last.old_status = STATUS_PAID
    /\ StatusNow = STATUS_NEW

\* A pass mapped a status the table does not have to UNKNOWN.
C10_WitnessUnmapped ==
    /\ IsPass
    /\ Len(last.report.payment) = 1
    /\ last.report.payment[1].authorization.status = GW_AUTHORIZATION_FAILED
    /\ last.fallback = STATUS_UNKNOWN
    /\ StatusNow = STATUS_UNKNOWN

(***************************************************************************)
(* SpecAuth: the first pass on a fresh order, in euros or in dollars, with *)
(* a report of one AUTHORIZED entry, over all totals of a bounded range    *)
(* and the amounts of the documented examples, with and without a currency *)
(* conversion.                                                             *)
(***************************************************************************)
MaxAmount == 3

ExampleAmounts == {50, 200, 900, 949, 950, 960, 1000}

Amounts == (0..MaxAmount) \cup ExampleAmounts

AuthReports ==
    { StatusReport(
        ApproximateTotals(registered, 0, 0, 0, captured, refunded,
                          chargedback, exchangedTo),
        <<LineAuthorized(1, currency, captured, refunded, chargedback)>>) :
        registered \in Amounts, captured \in Amounts, refunded \in Amounts,
        chargedback \in Amounts, exchangedTo \in Currencies,
        currency \in Currencies }

InitAuth == Init

NextAuth ==
    \/ last.op = "init" /\ \E o \in OrderIds, r \in AuthReports :
                              update_order(o, r)
    \/ last.op = "init" /\ \E o \in OrderIds, r \in AuthReports :
                              cancel_order(o, r)

SpecAuth == InitAuth /\ [][NextAuth]_vars

(***************************************************************************)
(* Properties of SpecAuth.                                                 *)
(***************************************************************************)
\* The totals of the report of the last pass.
Registered == last.report.approximateTotals.totalRegistered
Captured == last.report.approximateTotals.totalCaptured
Refunded == last.report.approximateTotals.totalRefunded
Chargedback == last.report.approximateTotals.totalChargedback
paymentSum == Captured - Chargedback - Refunded

\* The order of the last pass has a currency conversion: the totals are
\* exchanged to its currency and an entry was authorized in another one.
Converted ==
    /\ dbOrders[last.order].currency = last.report.approximateTotals.exchangedTo
    /\ \E i \in DOMAIN last.report.payment :
         last.report.payment[i].authorization.amount.currency
            # dbOrders[last.order].currency

\* The margin configured for the currency of the order of the last pass.
ConfiguredFor(currency) == IF currency = "EUR" THEN 50 ELSE 0

\* The margin that applies to the last pass.
MarginApplied ==
    IF Converted /\ ConfiguredFor(dbOrders[last.order].currency) < Registered
    THEN ConfiguredFor(dbOrders[last.order].currency)
    ELSE 0

\* The last operation was a pass on a report of one AUTHORIZED entry.
AuthorizedPass ==
    /\ IsPass
    /\ last.exc = None
    /\ Len(last.report.payment) = 1
    /\ last.report.payment[1].authorization.status = GW_AUTHORIZED

\* C8: with margin 0 and Captured >= Registered, the AUTHORIZED entry gives
\* PAID if paymentSum >= Registered, else CHARGED_BACK if paymentSum = 0
\* and Captured = Chargedback, REFUNDED if paymentSum = 0 and Captured =
\* Refunded, PAID_REFUNDED if paymentSum > 0 and UNKNOWN if paymentSum < 0;
\* update_order makes PAID, PAID_REFUNDED and CHARGED_BACK the status of
\* the order.
C8_SubDecision ==
    (AuthorizedPass /\ MarginApplied = 0 /\ Captured >= Registered)
        => /\ paymentSum >= Registered => last.candidate = STATUS_PAID
           /\ (paymentSum < Registered /\ paymentSum = 0
                 /\ Captured = Chargedback)
                => last.candidate = STATUS_CHARGED_BACK
           /\ (paymentSum < Registered /\ paymentSum = 0
                 /\ Captured = Refunded)
                => last.candidate = STATUS_REFUNDED
           /\ (paymentSum < Registered /\ paymentSum > 0)
                => last.candidate = STATUS_PAID_REFUNDED
           /\ paymentSum < 0 => last.candidate = STATUS_UNKNOWN
           /\ (last.op = "update_order" /\ last.candidate # None)
                => StatusNow = last.candidate

\* update_order has made an order CHARGED_BACK on Registered = 1000,
\* Captured = 1000, Chargedback = 1000, Refunded = 0 without conversion.
C8_Witness ==
    /\ AuthorizedPass
    /\ last.op = "update_order"
    /\ ~Converted
    /\ Registered = 1000 /\ Captured = 1000
    /\ Chargedback = 1000 /\ Refunded = 0
    /\ StatusNow = STATUS_CHARGED_BACK

\* update_order has made an order PAID on (1000, 1000, 0, 0).
C8_WitnessPaid ==
    /\ AuthorizedPass
    /\ last.op = "update_order"
    /\ ~Converted
    /\ Registered = 1000 /\ Captured = 1000
    /\ Chargedback = 0 /\ Refunded = 0
    /\ StatusNow = STATUS_PAID

\* update_order has made an order PAID_REFUNDED on Refunded = 200.
C8_WitnessRefunded ==
    /\ AuthorizedPass
    /\ last.op = "update_order"
    /\ ~Converted
    /\ Registered = 1000 /\ Captured = 1000
    /\ Chargedback = 0 /\ Refunded = 200
    /\ StatusNow = STATUS_PAID_REFUNDED

\* C9: the configured margin of the currency applies only to an order with
\* a currency conversion and only when it is below Registered; the entry
\* yields no decision when Captured < Registered - margin, and PAID exactly
\* when Captured, and Captured less refunds and chargebacks, are at least
\* Registered - margin.
C9_MarginTolerance ==
    AuthorizedPass
        => /\ Captured < Registered - MarginApplied
             => last.candidate = None
           /\ last.candidate = STATUS_PAID
                <=> /\ Captured >= Registered - MarginApplied
                    /\ paymentSum >= Registered - MarginApplied

\* update_order has made a converted order PAID on Registered = 1000 and
\* Captured = 960.
C9_Witness ==
    /\ AuthorizedPass
    /\ last.op = "update_order"
    /\ Converted
    /\ Registered = 1000 /\ Captured = 960
    /\ Chargedback = 0 /\ Refunded = 0
    /\ last.candidate = STATUS_PAID
    /\ StatusNow = STATUS_PAID

\* A pass got no decision for a converted order on Captured = 900.
C9_WitnessBelow ==
    /\ AuthorizedPass
    /\ Converted
    /\ ConfiguredFor(dbOrders[last.order].currency) = 50
    /\ Registered = 1000 /\ Captured = 900
    /\ last.candidate = None

\* A pass got no decision on Captured = 960 without a conversion.
C9_WitnessNoConversion ==
    /\ AuthorizedPass
    /\ ~Converted
    /\ Registered = 1000 /\ Captured = 960
    /\ Chargedback = 0 /\ Refunded = 0
    /\ last.candidate = None

\* A pass got no decision where the margin is not below Registered.
C9_WitnessClamped ==
    /\ AuthorizedPass
    /\ Converted
    /\ ConfiguredFor(dbOrders[last.order].currency) = 50
    /\ Registered = 50 /\ Captured = 3
    /\ last.candidate = None

(***************************************************************************)
(* SpecRace: the passes of the two triggers on order o1, interleaved at    *)
(* the statements that read or write the store.  A pass holds the order    *)
(* object its view loaded; each statement sees the rows written so far.    *)
(***************************************************************************)
\* Lines 225-232 and 316-321: the pass of trigger t starts on the order as
\* stored now; the entries wait in ascending id order.
begin_store_report(t, report) ==
    /\ passes[t].pc = "idle"
    /\ passes' = [passes EXCEPT ![t] =
          [pc |-> IF HasPayments(report) THEN "lookup" ELSE "assign",
           order |-> StoreTotals(dbOrders["o1"], report.approximateTotals),
           report |-> report,
           indented_status |-> None,
           rest |-> sort_by_id(report.payment),
           new_status |-> None,
           prep |-> NoPrep,
           log |-> <<>>,
           exc |-> None]]
    /\ UNCHANGED <<dbOrders, dbPayments, today, last>>

\* Lines 334-411: the pass looks the next entry's line up and copies the
\* entry into it.
lookup_payment(t) ==
    /\ passes[t].pc = "lookup"
    /\ passes' = [passes EXCEPT ![t] =
          [@ EXCEPT !.pc = "save",
                    !.prep = PrepareLine(dbPayments, passes[t].order,
                                         Head(passes[t].rest))]]
    /\ UNCHANGED <<dbOrders, dbPayments, today, last>>

\* The loop's variables of a pass.
LoopOf(pass, payments) ==
    [payments |-> payments, new_status |-> pass.new_status,
     log |-> pass.log, exc |-> None]

\* The pass after an iteration that left the loop's variables acc.
NextEntry(pass, acc) ==
    [pass EXCEPT !.pc = IF Tail(pass.rest) = <<>> THEN "assign" ELSE "lookup",
                 !.rest = Tail(pass.rest),
                 !.new_status = acc.new_status,
                 !.prep = NoPrep,
                 !.log = acc.log]

\* The pass has left update_order with the exception of acc.
Raised(pass, acc) ==
    Completed("update_order", "o1", pass.report, pass.indented_status,
              dbOrders["o1"].status, today,
              [candidate |-> acc.new_status, fallback |-> None,
               new_status |-> None, log |-> acc.log, exc |-> acc.exc])

SavedLine(t, acc) ==
    /\ dbPayments' = acc.payments
    /\ IF acc.exc = None
       THEN /\ passes' = [passes EXCEPT ![t] = NextEntry(passes[t], acc)]
            /\ UNCHANGED last
       ELSE /\ passes' = [passes EXCEPT ![t] = IdlePass]
            /\ last' = Raised(passes[t], acc)
    /\ UNCHANGED <<dbOrders, today>>

\* Lines 413-437: the pass saves the line and sends its signal; an
\* exception leaves the pass.
save_payment(t) ==
    /\ passes[t].pc = "save"
    /\ SavedLine(t, AfterLine(LoopOf(passes[t], dbPayments),
                              MaybeNewStatus(passes[t].order, passes[t].report,
                                             Head(passes[t].rest)),
                              PersistLine(dbPayments, passes[t].prep)))

\* Lines 234-268 and 441-458: the status the pass resolves.
ResolvedOutcome(pass, payments, now) ==
    IF HasPayments(pass.report)
    THEN LinesResult(pass.order, sort_by_id(pass.report.payment),
                     LoopOf(pass, payments))
    ELSE ReportOutcome(pass.order, payments, pass.report,
                       pass.indented_status, now)

FinishedPass(t, res) ==
    /\ dbOrders' = [dbOrders EXCEPT !["o1"] = res.order]
    /\ last' = Completed("update_order", "o1", passes[t].report,
                         passes[t].indented_status, passes[t].order.status,
                         today, res)
    /\ passes' = [passes EXCEPT ![t] = IdlePass]
    /\ UNCHANGED <<dbPayments, today>>

\* Lines 270-276: the pass assigns the status, saves its order object and
\* notifies the change.
finish_store_report(t) ==
    /\ passes[t].pc = "assign"
    /\ FinishedPass(t, AssignStatus(passes[t].order,
                                    ResolvedOutcome(passes[t], dbPayments,
                                                    today)))

RaceReports ==
    { StatusReport(EuroTotals(1000, 0, 0, 0, 0), <<>>),
      StatusReport(EuroTotals(1000, 1000, 0, 0, 0),
                   <<LineWithStatus(1, GW_NEW, "EUR")>>),
      AuthorizedReport(1000, 0, 0),
      StatusReport(EuroTotals(1000, 0, 1000, 0, 0),
                   <<LineAuthorized(2, "EUR", 1000, 0, 0),
                     LineWithStatus(1, GW_CANCELLED, "EUR")>>) }

InitRace == Init

NextRace ==
    \/ \E t \in Triggers, r \in RaceReports : begin_store_report(t, r)
    \/ \E t \in Triggers : lookup_payment(t)
    \/ \E t \in Triggers : save_payment(t)
    \/ \E t \in Triggers : finish_store_report(t)

SpecRace == InitRace /\ [][NextRace]_vars

(***************************************************************************)
(* Properties of SpecRace.                                                 *)
(***************************************************************************)
\* The pass of trigger t is about to save a line it constructed while a
\* row of that payment id exists: it lost the race to create the line.
LosesRace(t) ==
    /\ passes[t].pc = "save"
    /\ passes[t].prep.added
    /\ passes[t].prep.ddpayment.payment_id \in DOMAIN dbPayments

\* What the pass of trigger t has signalled and written after a step that
\* saved a line.
EffectsAfterSave(t) ==
    IF passes'[t].pc = "idle" THEN last'.log ELSE passes'[t].log

EffectsIn(log) == {log[i] : i \in DOMAIN log}

\* C1: the pass that loses the race to create a line saves the line as an
\* update of the one row and sends payment-updated, not payment-added.
C1_LoserReclassifiesAsUpdate ==
    [][\A t \in Triggers :
         (LosesRace(t) /\ passes'[t] # passes[t])
            => LET id == passes[t].prep.ddpayment.payment_id
               IN  /\ id \in DOMAIN dbPayments'
                   /\ PaymentUpdated(id) \in EffectsIn(EffectsAfterSave(t))
                   /\ PaymentAdded(id) \notin EffectsIn(EffectsAfterSave(t))]_vars

\* C2: no exception reaches the caller of a pass whose report the gateway
\* delivered.
C2_NoExceptionReachesCaller ==
    IsPass => last.exc = None

\* C2: the pass that loses the race to create a line goes on: it saves the
\* line as an update of the existing row and does not leave update_order.
C2_LoserContinues ==
    [][\A t \in Triggers :
         (LosesRace(t) /\ passes'[t] # passes[t])
            => /\ passes'[t].pc \in {"lookup", "assign"}
               /\ dbPayments'[passes[t].prep.ddpayment.payment_id]
                     = passes[t].prep.ddpayment]_vars

\* Both passes have constructed a line for the same payment id.
BothCreate ==
    \A t \in Triggers :
        /\ passes[t].pc = "save"
        /\ passes[t].prep.added
        /\ passes[t].prep.ddpayment.payment_id = 1

(***************************************************************************)
(* Further properties of Spec and SpecPass.                                *)
(***************************************************************************)
\* The status the entries of the last pass's report give: the candidate of
\* an AUTHORIZED entry, or else the static mapping of the last entry.
ComputedFromLines ==
    IF last.candidate # None THEN last.candidate ELSE last.fallback

\* C11: after a pass on a report with payment entries, an order that was
\* EXPIRED or CANCELLED and whose entries give NEW or IN_PROGRESS has the
\* status it had before the pass.
C11_ClosedOrderKeepsStatus ==
    (/\ IsPass
     /\ last.exc = None
     /\ last.report.payment # <<>>
     /\ last.old_status \in ClosedStatuses
     /\ ComputedFromLines \in OpenStatuses)
        => StatusNow = last.old_status

\* A pass on an EXPIRED order whose only entry is redirected for
\* authentication has left the order EXPIRED.
C11_Witness ==
    /\ IsPass
    /\ last.old_status = STATUS_EXPIRED
    /\ Len(last.report.payment) = 1
    /\ last.report.payment[1].authorization.status
          = GW_REDIRECTED_FOR_AUTHENTICATION
    /\ ComputedFromLines = STATUS_IN_PROGRESS
    /\ StatusNow = STATUS_EXPIRED

\* The kinds of the signals about payment lines.
PaymentEventKinds == {"payment_added", "payment_updated"}

\* C12: in the effects of a pass every signal comes after every save of
\* the pass, the saves of the payment lines and the save of the order.
C12_EventsAfterAllWrites ==
    IsPass =>
        \A i, j \in DOMAIN last.log :
            (last.log[i].kind \in EventKinds /\ last.log[j].kind \in WriteKinds)
                => j < i

\* C13: in the effects of a pass every payment_added and payment_updated
\* signal comes before the order_status_changed signal, and there is at
\* most one order_status_changed signal.
C13_PaymentEventsPrecedeStatusEvent ==
    IsPass =>
        /\ \A i, j \in DOMAIN last.log :
              (/\ last.log[i].kind \in PaymentEventKinds
               /\ last.log[j].kind = "order_status_changed")
                  => i < j
        /\ \A i, j \in DOMAIN last.log :
              (/\ last.log[i].kind = "order_status_changed"
               /\ last.log[j].kind = "order_status_changed")
                  => i = j

\* A pass on a report of two entries has signalled both lines and then the
\* change of the order's status.
C13_Witness ==
    /\ IsPass
    /\ Len(last.report.payment) = 2
    /\ Len(Events(last.log)) = 3
    /\ last.log[Len(last.log)].kind = "order_status_changed"
    /\ \E i \in DOMAIN last.log : last.log[i].kind = "payment_added"
    /\ \E i \in DOMAIN last.log : last.log[i].kind = "payment_updated"

(***************************************************************************)
(* Further properties of SpecRace.                                         *)
(***************************************************************************)
\* The pass of trigger t saves its order object in this step.
SavesOrder(t) == passes[t].pc = "assign" /\ passes'[t].pc = "idle"

\* C14: passes on one order serialize, so that the status a pass read when
\* it began is still the stored status when the pass saves its order: no
\* other pass has overwritten it in between.
C14_NoStaleStatusAtSave ==
    [][\A t \in Triggers :
         SavesOrder(t) => passes[t].order.status = dbOrders["o1"].status]_vars

\* C14: at most one pass on the order is between reading the order's
\* status and saving the order.
C14_PassesSerialize ==
    \A t, u \in Triggers :
        (passes[t].pc # "idle" /\ passes[u].pc # "idle") => t = u

(***************************************************************************)
(* SpecStatus: one update_order brings the order to some status, then      *)
(* _store_report runs with any intended status, one outside the recognized *)
(* statuses included, on a report without entries or with one entry.       *)
(***************************************************************************)
\* A status that DocdataOrder.STATUS_CHOICES does not list.
STATUS_UNRECOGNIZED == "failed"

IntendedStatuses == STATUS_CHOICES \cup {None, STATUS_UNRECOGNIZED}

\* _store_report(order, report, indented_status) for any intended status.
store_report_called(o, report, indented_status) ==
    /\ o \in OrderIds
    /\ RunPass("store_report", o, report, indented_status)

\* Reports whose totalRegistered differs from the order's gross amount, and
\* one whose refunds and chargebacks exceed what was captured.
AnomalyReports ==
    { StatusReport(EuroTotals(900, 900, 0, 0, 0), <<>>),
      StatusReport(EuroTotals(900, 900, 0, 0, 0),
                   <<LineWithStatus(1, GW_UNDOCUMENTED, "EUR")>>),
      StatusReport(EuroTotals(900, 0, 900, 0, 0),
                   <<LineAuthorized(1, "EUR", 900, 0, 0)>>),
      AuthorizedReport(1000, 800, 800) }

StatusReports == NoPaymentReports \cup SingleLineReports \cup AnomalyReports

InitStatus == Init

NextStatus ==
    \/ last.op = "init" /\ \E r \in BeforeReports : update_order("o1", r)
    \/ last.op = "init" /\ Tick
    \/ last.seq = 1 /\ \E r \in StatusReports, s \in IntendedStatuses :
                          store_report_called("o1", r, s)

SpecStatus == InitStatus /\ [][NextStatus]_vars

(***************************************************************************)
(* Properties of SpecStatus.                                               *)
(***************************************************************************)
\* The last operation was a completed pass of _store_report.
CompletedPass ==
    /\ last.op \in Passes \cup {"store_report"}
    /\ last.exc = None

\* C15: every order has a recognized status, and a pass that computed a
\* status outside the recognized ones has stored UNKNOWN.
C15_StatusAlwaysRecognized ==
    /\ \A o \in OrderIds : dbOrders[o].status \in STATUS_CHOICES
    /\ (CompletedPass /\ last.new_status \notin STATUS_CHOICES)
          => StatusNow = STATUS_UNKNOWN

\* A pass with an unrecognized intended status has taken a PAID order to
\* UNKNOWN.
C15_Witness ==
    /\ last.op = "store_report"
    /\ last.indented_status = STATUS_UNRECOGNIZED
    /\ last.new_status = STATUS_UNRECOGNIZED
    /\ last.old_status = STATUS_PAID
    /\ StatusNow = STATUS_UNKNOWN

\* The order_status_changed signals among the effects.
StatusEvents(log) ==
    SelectSeq(log, LAMBDA e : e.kind = "order_status_changed")

\* C16: a pass signals order_status_changed exactly when the status stored
\* after it differs from the status before it, once, with that pair of
\* statuses.
C16_StatusEventIffChanged ==
    CompletedPass =>
        StatusEvents(last.log) =
            IF StatusNow # last.old_status
            THEN <<OrderStatusChanged(last.old_status, StatusNow)>>
            ELSE <<>>

\* A pass has computed an unrecognized status for an order that is UNKNOWN,
\* stored UNKNOWN and signalled nothing.
C16_Witness ==
    /\ last.op = "store_report"
    /\ last.new_status = STATUS_UNRECOGNIZED
    /\ last.old_status = STATUS_UNKNOWN
    /\ StatusNow = STATUS_UNKNOWN
    /\ StatusEvents(last.log) = <<>>
    /\ last.log = <<SaveOrder>>

\* A pass has changed the status and signalled the change.
C16_WitnessChanged ==
    /\ last.op = "store_report"
    /\ last.old_status = STATUS_PAID
    /\ StatusNow = STATUS_REFUNDED
    /\ StatusEvents(last.log)
          = <<OrderStatusChanged(STATUS_PAID, STATUS_REFUNDED)>>

\* The soft anomalies of the report of the last pass: an authorization
\* status the mapping table does not have, non-zero totals without entries,
\* a totalRegistered that is not the order's gross amount, and refunds and
\* chargebacks beyond what was captured.
UnknownAuthorizationStatus ==
    \E i \in DOMAIN last.report.payment :
        last.report.payment[i].authorization.status \notin DOMAIN status_mapping

TotalsWithoutEntries ==
    last.report.payment = <<>> /\ ~SixTotalsZero(last.report)

RegisteredNotGross ==
    to_decimal_cents(Registered) # dbOrders[last.order].total_gross_amount

NegativePaymentSum == paymentSum < 0

SoftAnomaly ==
    \/ UnknownAuthorizationStatus
    \/ TotalsWithoutEntries
    \/ RegisteredNotGross
    \/ NegativePaymentSum

\* C17: a pass on a report with a soft anomaly completes: no exception
\* leaves it, every entry's line is stored with the entry's status as
\* reported, a recognized status is assigned and the order is saved with
\* the totals of the report.
C17_SoftAnomaliesDoNotAbort ==
    (last.op \in Passes \cup {"store_report"} /\ SoftAnomaly)
        => /\ last.exc = None
           /\ \A i \in DOMAIN last.report.payment :
                /\ last.report.payment[i].id \in DOMAIN dbPayments
                /\ dbPayments[last.report.payment[i].id].status
                      = last.report.payment[i].authorization.status
           /\ last.new_status # None
           /\ StatusNow \in STATUS_CHOICES
           /\ last.new_status \in STATUS_CHOICES => StatusNow = last.new_status
           /\ SaveOrder \in EffectsIn(last.log)
           /\ dbOrders[last.order].total_registered = to_decimal_cents(Registered)

\* A pass has stored an entry with an undocumented status, on a report
\* whose totalRegistered is not the gross amount, and left the order
\* UNKNOWN.
C17_Witness ==
    /\ last.op = "store_report"
    /\ UnknownAuthorizationStatus
    /\ RegisteredNotGross
    /\ last.old_status = STATUS_PAID
    /\ dbPayments[1].status = GW_UNDOCUMENTED
    /\ StatusNow = STATUS_UNKNOWN
    /\ SaveOrder \in EffectsIn(last.log)

\* A pass has completed on a report with a negative payment sum.
C17_WitnessNegative ==
    /\ last.op = "store_report"
    /\ NegativePaymentSum
    /\ last.candidate = STATUS_UNKNOWN
    /\ SaveOrder \in EffectsIn(last.log)

\* A pass has completed on non-zero totals without entries.
C17_WitnessNoEntries ==
    /\ last.op = "store_report"
    /\ TotalsWithoutEntries
    /\ last.exc = None
    /\ SaveOrder \in EffectsIn(last.log)

(***************************************************************************)
(* Further properties of Spec.                                             *)
(***************************************************************************)
\* An operation ends in this step with a failure of the gateway or with a
\* merchant mismatch.
FailsHard == last'.seq # last.seq /\ last'.exc \in GatewayExceptions

\* C18: an operation that fails with a merchant mismatch or in a gateway
\* call leaves every order (status and totals) and every payment line as
\* they were and signals nothing.
C18_HardFailureChangesNothing ==
    [][FailsHard => /\ dbOrders' = dbOrders
                    /\ dbPayments' = dbPayments
                    /\ Events(last'.log) = <<>>
                    /\ Writes(last'.log) = <<>>]_vars

\* cancel_order has failed in a gateway call on a paid order with a stored
\* line.
C18_Witness ==
    /\ last.op = "cancel_order"
    /\ last.exc = "DocdataStatusError"
    /\ dbOrders["o1"].status = STATUS_PAID
    /\ DOMAIN dbPayments = {1}

(***************************************************************************)
(* Further properties of SpecPass.                                         *)
(***************************************************************************)
\* How often the effect occurs in the effects.
Count(log, effect) == Cardinality({i \in DOMAIN log : log[i] = effect})

\* A pass completes in this step.
PassStep ==
    /\ last'.seq # last.seq
    /\ last'.op \in Passes
    /\ last'.exc = None

\* The pass of this step creates the line of payment id, or changes one of
\* its stored fields.
LineCreatedOrChanged(id) ==
    \/ id \notin DOMAIN dbPayments
    \/ dbPayments'[id] # dbPayments[id]

\* C19: for each payment entry of its report a pass signals payment_added
\* or payment_updated, one of them and once, if it created the line or
\* changed a stored field of it, and neither otherwise; it signals
\* payment_added only for a payment id that had no line before the pass.
C19_OnePaymentEventPerChangedLine ==
    [][PassStep =>
         \A i \in DOMAIN last'.report.payment :
            LET id == last'.report.payment[i].id
            IN  /\ Count(last'.log, PaymentAdded(id))
                     + Count(last'.log, PaymentUpdated(id))
                       = IF LineCreatedOrChanged(id) THEN 1 ELSE 0
                /\ Count(last'.log, PaymentAdded(id)) > 0
                     => id \notin DOMAIN dbPayments]_vars

\* A pass on a report of three entries has signalled the stored line of
\* payment 1 as updated and the lines of payments 2 and 3 as added.
C19_Witness ==
    /\ IsPass
    /\ Len(last.report.payment) = 3
    /\ Count(last.log, PaymentUpdated(1)) = 1
    /\ Count(last.log, PaymentAdded(2)) = 1
    /\ Count(last.log, PaymentAdded(3)) = 1
    /\ Count(last.log, PaymentAdded(1)) = 0

\* A pass on a report of two entries has found the line of payment 1 as
\* reported and signalled only the line of payment 2.
C19_WitnessUnchanged ==
    /\ IsPass
    /\ Len(last.report.payment) = 2
    /\ Count(last.log, PaymentUpdated(1)) = 0
    /\ Count(last.log, PaymentAdded(1)) = 0
    /\ Count(last.log, PaymentAdded(2)) = 1

(***************************************************************************)
(* SpecOrders: any sequence of passes on two orders, whose reports may     *)
(* carry the same payment ids.                                             *)
(***************************************************************************)
\* Totals in the currency of the order.
TotalsOf(o, shopperPending, captured) ==
    ApproximateTotals(1000, shopperPending, 0, 0, captured, 0, 0,
                      OrderCurrency[o])

OrdersReports(o) ==
    { StatusReport(TotalsOf(o, 0, 0), <<>>),
      StatusReport(TotalsOf(o, 1000, 0),
                   <<LineWithStatus(1, GW_NEW, OrderCurrency[o])>>),
      StatusReport(TotalsOf(o, 0, 1000),
                   <<LineAuthorized(1, OrderCurrency[o], 1000, 0, 0)>>),
      StatusReport(TotalsOf(o, 0, 0),
                   <<LineWithStatus(2, GW_CANCELLED, OrderCurrency[o])>>),
      StatusReport(TotalsOf(o, 0, 1000),
                   <<LineAuthorized(2, OrderCurrency[o], 1000, 0, 0),
                     LineWithStatus(1, GW_CANCELLED, OrderCurrency[o])>>) }

InitOrders == Init

NextOrders ==
    \/ \E o \in OrderIds : \E r \in OrdersReports(o) : update_order(o, r)
    \/ \E o \in OrderIds : \E r \in OrdersReports(o) : cancel_order(o, r)

SpecOrders == InitOrders /\ [][NextOrders]_vars

(***************************************************************************)
(* Properties of SpecOrders.                                               *)
(***************************************************************************)
\* C20: a stored payment line stays stored under its payment id, with that
\* payment id and with the order that owned it when it was created; a later
\* report that carries the payment id changes only the other fields of the
\* line.  There is one line per payment id.
C20_LineKeepsItsIdentity ==
    [][\A id \in DOMAIN dbPayments :
         /\ id \in DOMAIN dbPayments'
         /\ dbPayments'[id].payment_id = id
         /\ dbPayments[id].payment_id = id
         /\ dbPayments'[id].docdata_order = dbPayments[id].docdata_order]_vars

\* A pass of order o2 has updated the line of payment 1, which a pass of
\* order o1 created; the line is still o1's.
C20_Witness ==
    /\ IsPass
    /\ last.order = "o2"
    /\ Count(last.log, PaymentUpdated(1)) = 1
    /\ dbPayments[1].docdata_order = "o1"
    /\ dbPayments[1].payment_id = 1

(***************************************************************************)
(* Properties of Spec: cancel_order and the notification of changes.       *)
(***************************************************************************)
\* C21: after cancel_order has completed without a failure of the gateway
\* the status of the order is CANCELLED, whatever the report and whatever
\* the status before.
C21_CancelOrderMarksCancelled ==
    (last.op = "cancel_order" /\ last.exc = None)
        => StatusNow = STATUS_CANCELLED

\* C22: every change of an order's status, by whichever operation, comes
\* with an order_status_changed signal for that change.
C22_EveryChangeIsNotified ==
    [][\A o \in OrderIds :
         dbOrders'[o].status # dbOrders[o].status
            => Count(last'.log,
                     OrderStatusChanged(dbOrders[o].status,
                                        dbOrders'[o].status)) = 1]_vars

(***************************************************************************)
(* SpecAmounts: a first pass stores nothing or a line of payment 1, then a *)
(* pass runs on a report whose entry for payment 1 has any authorization   *)
(* status and amount of a small set and up to MaxItems capture items, with *)
(* refund and chargeback items, of matching and of other statuses.         *)
(***************************************************************************)
MaxItems == 2

ItemValues == {100, 250}

ItemStatuses == {"CAPTURED", "CHARGED"}

\* The sequences of at most n items.
ItemSeqs(n) ==
    UNION { [1..k -> { Tag(st, v, "EUR") : st \in ItemStatuses, v \in ItemValues }] :
            k \in 0..n }

AmountStatuses == {GW_AUTHORIZED, GW_NEW, GW_CANCELLED}

AuthorizationValues == {1000, 1234}

AmountReports ==
    { StatusReport(EuroTotals(1000, 0, 0, 0, 0),
                   <<ReportPayment(1, "IDEAL", st, Amount(v, "EUR"), "",
                                   capture, refund, chargeback)>>) :
        st \in AmountStatuses, v \in AuthorizationValues,
        capture \in ItemSeqs(MaxItems), refund \in ItemSeqs(1),
        chargeback \in ItemSeqs(1) }

BeforeAmounts ==
    { StatusReport(EuroTotals(1000, 0, 0, 0, 0), <<>>),
      StatusReport(EuroTotals(1000, 1000, 0, 0, 0),
                   <<LineWithStatus(1, GW_NEW, "EUR")>>),
      AuthorizedReport(1000, 0, 0),
      AuthorizedReport(1000, 200, 0) }

InitAmounts == Init

NextAmounts ==
    \/ last.op = "init" /\ \E r \in BeforeAmounts : update_order("o1", r)
    \/ last.seq = 1 /\ \E r \in AmountReports : update_order("o1", r)

SpecAmounts == InitAmounts /\ [][NextAmounts]_vars

(***************************************************************************)
(* Properties of SpecAmounts.                                              *)
(***************************************************************************)
\* The sum, in minor units, of the first n items that have the status.
RECURSIVE TotalOfFirst(_, _, _)
TotalOfFirst(items, status, n) ==
    IF n = 0
    THEN 0
    ELSE TotalOfFirst(items, status, n - 1)
           + (IF items[n].status = status THEN items[n].amount.value ELSE 0)

TotalOf(items, status) == TotalOfFirst(items, status, Len(items))

\* C23: after a pass the line of each entry has, as amount_allocated, the
\* authorization amount if the entry is AUTHORIZED and zero otherwise, and
\* as amount_debited, amount_refunded and amount_chargeback the sums of the
\* capture, refund and chargeback items with status CAPTURED, CAPTURED and
\* CHARGED; items with another status are not counted.
C23_StoredAmounts ==
    (IsPass /\ last.exc = None) =>
        \A i \in DOMAIN last.report.payment :
            LET auth == last.report.payment[i].authorization
                line == dbPayments[last.report.payment[i].id]
            IN  /\ line.amount_allocated
                     = to_decimal_cents(IF auth.status = "AUTHORIZED"
                                        THEN auth.amount.value
                                        ELSE 0)
                /\ line.amount_debited
                     = to_decimal_cents(TotalOf(auth.capture, "CAPTURED"))
                /\ line.amount_refunded
                     = to_decimal_cents(TotalOf(auth.refund, "CAPTURED"))
                /\ line.amount_chargeback
                     = to_decimal_cents(TotalOf(auth.chargeback, "CHARGED"))

\* A pass has updated a line that was AUTHORIZED with 10.00 allocated: the
\* entry is now NEW, with a capture of 1.00 and a capture item of another
\* status, and a refund item of another status; the line has nothing
\* allocated, 1.00 debited and nothing refunded.
C23_Witness ==
    /\ IsPass
    /\ last.old_status = STATUS_PAID
    /\ Count(last.log, PaymentUpdated(1)) = 1
    /\ last.report.payment[1].authorization.status = GW_NEW
    /\ last.report.payment[1].authorization.amount.value = 1234
    /\ last.report.payment[1].authorization.capture
          = <<Tag("CAPTURED", 100, "EUR"), Tag("CHARGED", 250, "EUR")>>
    /\ last.report.payment[1].authorization.refund
          = <<Tag("CHARGED", 250, "EUR")>>
    /\ dbPayments[1].amount_allocated = to_decimal_cents(0)
    /\ dbPayments[1].amount_debited = to_decimal_cents(100)
    /\ dbPayments[1].amount_refunded = to_decimal_cents(0)

(***************************************************************************)
(* Further properties of SpecAuth: the branch of a payment sum of zero.    *)
(***************************************************************************)
\* The payment sum is zero and Captured equals both Chargedback and
\* Refunded.
Tie == paymentSum = 0 /\ Captured = Chargedback /\ Captured = Refunded

\* C24 as stated: when paymentSum = 0 and both Captured = Chargedback and
\* Captured = Refunded, the AUTHORIZED entry gives REFUNDED.
C24_RefundWinsOnTie ==
    (AuthorizedPass /\ Tie) => last.candidate = STATUS_REFUNDED

\* C24 as the code has it: paymentSum = 0 with Captured = Chargedback and
\* Captured = Refunded means that all three are zero; the entry then gives
\* PAID when Registered is zero too, by the test for a full payment that
\* comes first, and no decision otherwise. It gives neither REFUNDED nor
\* CHARGED_BACK, and whenever it gives REFUNDED the chargeback test did not
\* match.
C24_TieIsPaidOrUndecided ==
    /\ (AuthorizedPass /\ Tie)
          => /\ Captured = 0
             /\ last.candidate = IF Registered = 0 THEN STATUS_PAID ELSE None
    /\ (AuthorizedPass /\ last.candidate = STATUS_REFUNDED)
          => Captured = Refunded /\ Captured # Chargedback

\* A pass on an AUTHORIZED entry with all of Registered, Captured,
\* Chargedback and Refunded zero has given PAID.
C24_Witness ==
    /\ AuthorizedPass
    /\ Tie
    /\ Registered = 0
    /\ last.candidate = STATUS_PAID

(***************************************************************************)
(* SpecLines: a pass on a new order with a report of two entries, each     *)
(* AUTHORIZED or not and each authorized in a currency of its own, with    *)
(* totals on either side of the margin.                                    *)
(***************************************************************************)
\* Captured and refunded: captured in part, within the margin, in full,
\* refunded in part and refunded in full.
CapturedAndRefunded ==
    { <<400, 0>>, <<960, 0>>, <<1000, 0>>, <<1000, 200>>, <<1000, 1000>> }

LineStatuses == {GW_AUTHORIZED, GW_NEW}

\* The entry with this id and status, authorized in this currency.
LineIn(id, status, currency) ==
    IF status = GW_AUTHORIZED
    THEN LineAuthorized(id, currency, 400, 0, 0)
    ELSE LineWithStatus(id, status, currency)

TwoLinesReports ==
    { StatusReport(
        ApproximateTotals(1000, 0, 0, 0, cr[1], cr[2], 0, exchangedTo),
        <<LineIn(ids[1], st[1], cur[1]), LineIn(ids[2], st[2], cur[2])>>) :
        cr \in CapturedAndRefunded, exchangedTo \in Currencies,
        ids \in IdOrders(2), st \in [1..2 -> LineStatuses],
        cur \in [1..2 -> Currencies] }

InitLines == Init

NextLines ==
    \/ last.op = "init" /\ \E o \in OrderIds, r \in TwoLinesReports :
                              update_order(o, r)
    \/ last.op = "init" /\ \E o \in OrderIds, r \in TwoLinesReports :
                              cancel_order(o, r)

SpecLines == InitLines /\ [][NextLines]_vars

(***************************************************************************)
(* Properties of SpecLines.                                                *)
(***************************************************************************)
\* The positions of the AUTHORIZED entries.
AuthorizedLines(report) ==
    { i \in DOMAIN report.payment :
        report.payment[i].authorization.status = GW_AUTHORIZED }

\* The listing with the payment ids of its entries in reverse, so that the
\* entry looked at first is looked at last.
IdsReversed(payment) ==
    [i \in DOMAIN payment |->
        [payment[i] EXCEPT !.id = payment[Len(payment) + 1 - i].id]]

\* C25: in a pass, the sub-decision gives the same result for every
\* AUTHORIZED entry of the report, and that result is the candidate of the
\* pass; when all entries are AUTHORIZED, the pass on the report with the
\* ids of its entries reversed, which looks at them in the opposite order,
\* leaves the same order status.
C25_SameForEveryAuthorizedLine ==
    [][(/\ last'.seq # last.seq
        /\ last'.op \in Passes
        /\ last'.exc = None) =>
         LET order == dbOrders[last'.order]
             report == last'.report
             reversed == store_report(
                            order, dbPayments,
                            StatusReport(report.approximateTotals,
                                         IdsReversed(report.payment)),
                            last'.indented_status, today)
         IN  /\ \A i \in AuthorizedLines(report) :
                  process_authorized_payment(order, report, report.payment[i])
                     = last'.candidate
             /\ AuthorizedLines(report) = DOMAIN report.payment
                  => reversed.order.status = dbOrders'[last'.order].status]_vars

\* update_order has made an order PAID on a report of two AUTHORIZED
\* entries, one in the currency of the order and one in another, with
\* Captured below Registered by less than the margin.
C25_Witness ==
    /\ last.op = "update_order"
    /\ last.exc = None
    /\ Len(last.report.payment) = 2
    /\ AuthorizedLines(last.report) = {1, 2}
    /\ last.report.payment[1].authorization.amount.currency = "USD"
    /\ last.report.payment[2].authorization.amount.currency = "EUR"
    /\ last.report.payment[1].id > last.report.payment[2].id
    /\ Converted
    /\ Registered = 1000 /\ Captured = 960
    /\ last.candidate = STATUS_PAID
    /\ StatusNow = STATUS_PAID

\* The statuses the sub-decision can decide on.
DecidedStatuses ==
    {STATUS_PAID, STATUS_PAID_REFUNDED, STATUS_REFUNDED,
     STATUS_CHARGED_BACK, STATUS_UNKNOWN}

\* C26: the AUTHORIZED entry gives no decision only when Captured <
\* Registered - margin; when Captured >= Registered - margin it gives one
\* of PAID, PAID_REFUNDED, REFUNDED, CHARGED_BACK and UNKNOWN, and the
\* static mapping of the entry's authorization status is not used.
C26_UndecidedOnlyWhenUndercaptured ==
    AuthorizedPass =>
        /\ last.candidate = None => Captured < Registered - MarginApplied
        /\ Captured >= Registered - MarginApplied
              => /\ last.candidate \in DecidedStatuses
                 /\ last.fallback = None

\* Where C26 fails: update_order on a new order with Registered = 1000,
\* Captured = 1000, Refunded = 50 and Chargedback = 950 gets no decision
\* and leaves the order PENDING by the static mapping of AUTHORIZED.
C26_ReturnedInPartsIsPending ==
    /\ AuthorizedPass
    /\ last.op = "update_order"
    /\ Registered = 1000 /\ Captured = 1000
    /\ Refunded = 50 /\ Chargedback = 950
    /\ last.candidate = None
    /\ last.fallback = STATUS_PENDING
    /\ StatusNow = STATUS_PENDING

\* The only cases without a decision on sufficient capture: the payment sum
\* is zero, below Registered - margin, and Captured equals neither
\* Chargedback nor Refunded.
C26_UndecidedCases ==
    AuthorizedPass =>
        (last.candidate = None <=>
            \/ Captured < Registered - MarginApplied
            \/ /\ paymentSum = 0
               /\ 0 < Registered - MarginApplied
               /\ Captured # Chargedback
               /\ Captured # Refunded)

====
